---- MODULE Spec2Model ----
(***************************************************************************)
(* Model of src/telegram_monitor.py: PublicChannelMonitor.                 *)
(*                                                                         *)
(* The program is a single asyncio event loop.  Code between two awaits    *)
(* runs atomically, so every action below is one such segment: it starts   *)
(* where a coroutine is resumed (a send, a sleep or a fetch returns) and   *)
(* ends at the next await.                                                 *)
(*   - handler (l.201-206) spawns one start_notification_loop task per     *)
(*     new channel message;                                                *)
(*   - start_notification_loop (l.100-154) is the escalation cycle;        *)
(*   - start_monitoring's while-loop (l.211-213) is the command poller,    *)
(*     calling check_stop_command (l.156-180);                             *)
(*   - the bot transport keeps the pending updates until a get_updates     *)
(*     call with an offset confirms them.                                  *)
(***************************************************************************)
EXTENDS Integers, Sequences, FiniteSets, TLC

VARIABLES
    notification_active,  \* self.notification_active
    stop_requested,       \* self.stop_requested
    tasks,                \* the start_notification_loop tasks created so far
    pending,              \* updates the bot transport has not seen confirmed
    next_update_id,       \* update_id the transport gives to the next update
    poller_pc,            \* where the command poller is
    poller_update,        \* update_id of the /stop being handled, 0 if none
    poll_result,          \* what the last check_stop_command call returned
    handled,              \* per update_id: times stop_requested was set for it
    confirmed,            \* per update_id: confirmations delivered for it
    arrived,              \* updates that arrived at the transport in this run
    failures,             \* transport errors raised so far
    env,                  \* os.environ: the settings of the process
    phase,                \* where main() is
    config_error,         \* the exception PublicChannelMonitor() raised
    client,               \* self.client
    setup_result,         \* how setup_client ended
    startup_sent,         \* send_notification was called for the startup text
    handlers,             \* handlers registered with client.on
    new_message,          \* event.message as start_notification_loop reads it
    message_preview,      \* the preview of initial_text
    alert_preview,        \* the preview of alert_text
    preview_pc            \* which of the two texts has been built

\* main(), the constructor and start_monitoring up to its while loop
startup_vars == <<env, phase, config_error, client, setup_result,
                  startup_sent, handlers>>

\* the texts start_notification_loop builds
preview_vars == <<new_message, message_preview, alert_preview, preview_pc>>

vars == <<notification_active, stop_requested, tasks, pending, next_update_id,
          poller_pc, poller_update, poll_result, handled, confirmed, arrived,
          failures, startup_vars, preview_vars>>

----------------------------------------------------------------------------
(* Bounds of the model.                                                    *)

\* new channel messages delivered to the handler in one run
MaxEvents == 2
\* updates that arrive at the bot transport in one run
MaxCommands == 1
\* transport errors (TelegramError and others) raised in one run
MaxFailures == 1

(* Program constants.                                                      *)

\* max_notifications = 25  # Safety limit
max_notifications == 25
\* self.bot.get_updates(limit=10)
get_updates_limit == 10

----------------------------------------------------------------------------
(* Texts: a str is a sequence of one-character strings.                    *)

Whitespace == {" ", "\t", "\n"}

\* str.lower() on one character
LowerChar(c) ==
    CASE c = "S" -> "s"
      [] c = "T" -> "t"
      [] c = "O" -> "o"
      [] c = "P" -> "p"
      [] c = "H" -> "h"
      [] c = "I" -> "i"
      [] OTHER -> c

\* str.lower()
Lower(s) == [i \in 1..Len(s) |-> LowerChar(s[i])]

RECURSIVE LStrip(_)
LStrip(s) ==
    IF s # <<>> /\ Head(s) \in Whitespace THEN LStrip(Tail(s)) ELSE s

RECURSIVE RStrip(_)
RStrip(s) ==
    IF s # <<>> /\ s[Len(s)] \in Whitespace
    THEN RStrip(SubSeq(s, 1, Len(s) - 1))
    ELSE s

\* str.strip()
Strip(s) == RStrip(LStrip(s))

StopKeyword == <<"/", "s", "t", "o", "p">>

\* update.message.text.strip().lower() == '/stop'
NormalizesToStop(text) == Lower(Strip(text)) = StopKeyword

----------------------------------------------------------------------------
(* Configuration: PublicChannelMonitor.__init__ and _validate_config.      *)

\* the keys of required_vars, in the order of the dict
RequiredVars ==
    <<"API_ID", "API_HASH", "PHONE_NUMBER", "BOT_TOKEN", "USER_ID",
      "CHANNEL_USERNAME">>

\* the settings __init__ reads
Settings ==
    {RequiredVars[i] : i \in 1..Len(RequiredVars)}
      \cup {"NOTIFICATION_INTERVAL"}

\* the settings __init__ passes to int()
IntSettings == {"API_ID", "USER_ID", "NOTIFICATION_INTERVAL"}

\* a variable of the environment: not set, or set to a str
Unset == [set |-> FALSE, value |-> <<>>]
SetTo(v) == [set |-> TRUE, value |-> v]

\* os.getenv(name, default)
Getenv(e, name, default) == IF e[name].set THEN e[name].value ELSE default

Digits == <<"0", "1", "2", "3", "4", "5", "6", "7", "8", "9">>

IsDigit(c) == \E i \in 1..Len(Digits) : Digits[i] = c

DigitValue(c) == (CHOOSE i \in 1..Len(Digits) : Digits[i] = c) - 1

\* the number a str of decimal digits writes
RECURSIVE Number(_)
Number(ds) ==
    IF ds = <<>> THEN 0
    ELSE Len(Digits) * Number(SubSeq(ds, 1, Len(ds) - 1))
           + DigitValue(ds[Len(ds)])

\* int(s): whitespace around is dropped, a sign is allowed, decimal digits
\* are required; anything else raises ValueError (ok is FALSE)
ParseInt(s) ==
    LET t == Strip(s)
        signed == t # <<>> /\ Head(t) \in {"+", "-"}
        ds == IF signed THEN Tail(t) ELSE t
    IN  IF ds # <<>> /\ \A i \in 1..Len(ds) : IsDigit(ds[i])
        THEN [ok |-> TRUE,
              value |-> IF signed /\ Head(t) = "-"
                        THEN 0 - Number(ds) ELSE Number(ds)]
        ELSE [ok |-> FALSE, value |-> 0]

\* l.24-30: the attributes __init__ loads from the environment
Loaded(e) ==
    [API_ID |-> ParseInt(Getenv(e, "API_ID", <<"0">>)),
     API_HASH |-> Getenv(e, "API_HASH", <<>>),
     PHONE_NUMBER |-> Getenv(e, "PHONE_NUMBER", <<>>),
     BOT_TOKEN |-> Getenv(e, "BOT_TOKEN", <<>>),
     USER_ID |-> ParseInt(Getenv(e, "USER_ID", <<"0">>)),
     CHANNEL_USERNAME |-> Getenv(e, "CHANNEL_USERNAME", <<>>),
     NOTIFICATION_INTERVAL |->
         ParseInt(Getenv(e, "NOTIFICATION_INTERVAL", <<"3", "0">>))]

\* l.24, 28, 30: one of the int() calls raises
IntRaises(cfg) == \E n \in IntSettings : ~cfg[n].ok

\* l.55: not value or (isinstance(value, int) and value == 0)
IsMissing(cfg, name) ==
    IF name \in IntSettings THEN cfg[name].value = 0 ELSE cfg[name] = <<>>

\* l.54-55: missing_vars
MissingVars(cfg) == SelectSeq(RequiredVars, LAMBDA n : IsMissing(cfg, n))

\* no exception
NoError == [raised |-> FALSE, kind |-> "none", names |-> <<>>]

\* the ValueError of int(), and the ValueError of l.59 with the names it lists
IntError == [raised |-> TRUE, kind |-> "invalid literal", names |-> <<>>]
MissingError(names) == [raised |-> TRUE, kind |-> "missing", names |-> names]

\* the values the model gives to the settings
IntValues ==
    {Unset, SetTo(<<>>), SetTo(<<"0">>), SetTo(<<"7">>), SetTo(<<"x">>)}
IntervalValues == {Unset, SetTo(<<"3", "0">>), SetTo(<<"x">>)}
StrValues == {Unset, SetTo(<<>>), SetTo(<<"v">>)}

Envs ==
    [API_ID : IntValues, API_HASH : StrValues, PHONE_NUMBER : StrValues,
     BOT_TOKEN : StrValues, USER_ID : IntValues,
     CHANNEL_USERNAME : StrValues, NOTIFICATION_INTERVAL : IntervalValues]

\* an environment with every required setting
ValidEnv ==
    [API_ID |-> SetTo(<<"7">>), API_HASH |-> SetTo(<<"v">>),
     PHONE_NUMBER |-> SetTo(<<"v">>), BOT_TOKEN |-> SetTo(<<"v">>),
     USER_ID |-> SetTo(<<"7">>), CHANNEL_USERNAME |-> SetTo(<<"v">>),
     NOTIFICATION_INTERVAL |-> Unset]

----------------------------------------------------------------------------
(* The previews of start_notification_loop.                                *)

\* new_message.text[:150]
preview_limit == 150
\* message_preview[:100]
alert_preview_limit == 100
\* the longest message body of the model
MaxBody == 152

\* s[:n]
Slice(s, n) == SubSeq(s, 1, IF Len(s) < n THEN Len(s) ELSE n)

MediaMessage ==
    <<"M", "e", "d", "i", "a", " ", "m", "e", "s", "s", "a", "g", "e">>

Ellipsis == <<".", ".", ".">>

\* MessagePreview without the slice
MessagePreviewUncut(m) ==
    IF m.has_text /\ m.text # <<>> THEN m.text ELSE MediaMessage

\* l.113: new_message.text[:150] if new_message.text else "Media message"
MessagePreview(m) ==
    IF m.has_text /\ m.text # <<>>
    THEN Slice(m.text, preview_limit)
    ELSE MediaMessage

\* l.141: {message_preview[:100]}...
AlertPreview(p) == Slice(p, alert_preview_limit) \o Ellipsis

\* a body of n characters, all different
Body(n) == [i \in 1..n |-> ToString(i)]

\* event.message: a text of every length up to MaxBody, a text that is the
\* ellipsis, or no text (new_message.text is None)
Messages ==
    {[has_text |-> TRUE, text |-> Body(n)] : n \in 0..MaxBody}
      \cup {[has_text |-> TRUE, text |-> Ellipsis],
            [has_text |-> FALSE, text |-> <<>>]}

----------------------------------------------------------------------------
(* Updates of the bot transport.                                           *)

\* self.user_id, the configured recipient, and some other Telegram user
user_id == "recipient"
Users == {user_id, "stranger"}

\* An update as check_stop_command reads it: update.update_id,
\* update.message (None for an update that is no message),
\* update.message.from_user.id, update.message.text (None for media).
Payload(has_message, from_id, has_text, text) ==
    [has_message |-> has_message, from_id |-> from_id,
     has_text |-> has_text, text |-> text]

Update(id, p) ==
    [update_id |-> id, has_message |-> p.has_message, from_id |-> p.from_id,
     has_text |-> p.has_text, text |-> p.text]

\* IsStopCommand without the comparison of the sender with self.user_id
IsStopCommandAnySender(u) ==
    /\ u.has_message
    /\ u.has_text /\ u.text # <<>>
    /\ NormalizesToStop(u.text)

\* the condition of the if statement of check_stop_command
IsStopCommand(u) ==
    /\ u.has_message
    /\ u.from_id = user_id
    /\ u.has_text /\ u.text # <<>>
    /\ NormalizesToStop(u.text)

\* casing variants of the stop keyword
Casings ==
    {<<"/", s, t, o, p>> : s \in {"s", "S"}, t \in {"t", "T"},
                           o \in {"o", "O"}, p \in {"p", "P"}}

Pads == {<<>>, <<" ">>, <<"\n", "\t">>}

\* every casing of '/stop' with whitespace around it
StopVariants == {l \o c \o r : l \in Pads, c \in Casings, r \in Pads}

\* texts that are not the stop keyword
OtherTexts ==
    { <<>>, <<"h", "i">>, <<"s", "t", "o", "p">>,
      <<"/", "s", "t", "o", "p", "p">>, <<"/", "s", "t", " ", "o", "p">>,
      <<"/", " ", "s", "t", "o", "p">>, <<"/", "s", "t", "o">>,
      <<"/", "s", "t", "o", "p", " ", "h", "i">> }

Texts == StopVariants \cup OtherTexts

\* every update the model can deliver
AllPayloads ==
    {Payload(TRUE, user_id, TRUE, t) : t \in Texts}
      \cup {Payload(TRUE, "stranger", TRUE, t) :
               t \in {StopKeyword, <<" ", "/", "S", "T", "O", "P">>,
                      <<"h", "i">>}}
      \cup {Payload(TRUE, f, FALSE, <<>>) : f \in Users}
      \cup {Payload(FALSE, user_id, FALSE, <<>>)}

\* the updates delivered while escalation cycles run
SamplePayloads ==
    { Payload(TRUE, user_id, TRUE,
              <<" ", "/", "S", "t", "o", "P", "\n", "\t">>),
      Payload(TRUE, "stranger", TRUE, StopKeyword),
      Payload(TRUE, user_id, TRUE, <<"h", "i">>) }

----------------------------------------------------------------------------
(* The messages a cycle hands to send_notification.                        *)

InitialMsg == [kind |-> "initial", n |-> 0]
AlertMsg(n) == [kind |-> "alert", n |-> n]
MaxReachedMsg == [kind |-> "max", n |-> 0]

\* a task created by the handler, before its first step; cancelled records
\* that check_stop_command set stop_requested during the task's cycle
NewTask ==
    [pc |-> "spawned", notification_count |-> 0, log |-> <<>>,
     cancelled |-> FALSE]

TaskIds == 1..Len(tasks)

\* the task is between its notification_active = True (l.105) and its final
\* notification_active = False (l.153)
InProgress(t) ==
    tasks[t].pc \in {"initSending", "settle", "alertSending", "sleeping",
                     "maxSending"}

Running == {t \in TaskIds : InProgress(t)}

\* l.22-41 and l.182-208 done: the monitor is constructed from a valid
\* environment, setup_client succeeded, the startup text was sent and the
\* handler is registered
Started ==
    /\ env = ValidEnv
    /\ phase = "monitoring"
    /\ config_error = NoError
    /\ client = "connected"
    /\ setup_result = "ok"
    /\ startup_sent = TRUE
    /\ handlers = 1

\* no event.message is being formatted
NoPreview ==
    /\ new_message = [has_text |-> FALSE, text |-> <<>>]
    /\ message_preview = <<>>
    /\ alert_preview = <<>>
    /\ preview_pc = "event"

\* l.37-38, and a bot transport with nothing pending
Idle ==
    /\ notification_active = FALSE
    /\ stop_requested = FALSE
    /\ tasks = <<>>
    /\ pending = <<>>
    /\ next_update_id = 1
    /\ poller_pc = "sleep"
    /\ poller_update = 0
    /\ poll_result = "none"
    /\ handled = <<>>
    /\ confirmed = <<>>
    /\ arrived = 0
    /\ failures = 0

Init == Idle /\ Started /\ NoPreview

----------------------------------------------------------------------------
(* Watcher: handler(event).                                                *)

\* asyncio.create_task(self.start_notification_loop(event.message))
NewMessage ==
    /\ handlers > 0 /\ client = "connected"
    /\ Len(tasks) < MaxEvents
    /\ tasks' = Append(tasks, NewTask)
    /\ UNCHANGED <<notification_active, stop_requested, pending,
                   next_update_id, poller_pc, poller_update, poll_result,
                   handled, confirmed, arrived, failures>>
    /\ UNCHANGED <<startup_vars, preview_vars>>

----------------------------------------------------------------------------
(* Escalator: start_notification_loop.                                     *)

\* a send through the bot returns, or raises a TelegramError if the run has
\* errors left
SendOutcome(ok) ==
    IF ok THEN failures' = failures
    ELSE failures < MaxFailures /\ failures' = failures + 1

\* StartLoop without the entry check of l.102-103
StartLoopUnguarded(t) ==
    /\ tasks[t].pc = "spawned"
    /\ notification_active' = TRUE
    /\ stop_requested' = FALSE
    /\ tasks' = [tasks EXCEPT ![t].pc = "initSending",
                              ![t].notification_count = 0,
                              ![t].log = Append(@, InitialMsg)]
    /\ UNCHANGED <<pending, next_update_id, poller_pc, poller_update,
                   poll_result, handled, confirmed, arrived, failures>>
    /\ UNCHANGED <<startup_vars, preview_vars>>

\* l.102-128: the entry check, the flags, the initial notification
StartLoop(t) ==
    /\ tasks[t].pc = "spawned"
    /\ IF notification_active
       THEN /\ tasks' = [tasks EXCEPT ![t].pc = "ignored"]
            /\ UNCHANGED <<notification_active, stop_requested>>
       ELSE /\ notification_active' = TRUE
            /\ stop_requested' = FALSE
            /\ tasks' = [tasks EXCEPT ![t].pc = "initSending",
                                      ![t].notification_count = 0,
                                      ![t].log = Append(@, InitialMsg)]
    /\ UNCHANGED <<pending, next_update_id, poller_pc, poller_update,
                   poll_result, handled, confirmed, arrived, failures>>
    /\ UNCHANGED <<startup_vars, preview_vars>>

\* InitialSent with a send that is repeated when it raises
InitialSentRetrying(t) ==
    /\ tasks[t].pc = "initSending"
    /\ \E ok \in BOOLEAN :
          /\ SendOutcome(ok)
          /\ tasks' = IF ok
                      THEN [tasks EXCEPT ![t].pc = "settle"]
                      ELSE [tasks EXCEPT ![t].log = Append(@, InitialMsg)]
    /\ UNCHANGED <<notification_active, stop_requested, pending,
                   next_update_id, poller_pc, poller_update, poll_result,
                   handled, confirmed, arrived>>
    /\ UNCHANGED <<startup_vars, preview_vars>>

\* l.128-131: send_notification(initial_text) returns (an error is logged),
\* asyncio.sleep(5) begins
InitialSent(t) ==
    /\ tasks[t].pc = "initSending"
    /\ \E ok \in BOOLEAN : SendOutcome(ok)
    /\ tasks' = [tasks EXCEPT ![t].pc = "settle"]
    /\ UNCHANGED <<notification_active, stop_requested, pending,
                   next_update_id, poller_pc, poller_update, poll_result,
                   handled, confirmed, arrived>>
    /\ UNCHANGED <<startup_vars, preview_vars>>

\* LoopCondition with <= for <
LoopConditionOffByOne(count) ==
    notification_active /\ ~stop_requested /\ count <= max_notifications

\* l.133: the condition of the while loop
LoopCondition(count) ==
    notification_active /\ ~stop_requested /\ count < max_notifications

\* Increment by two
IncrementSkipping(count) == count + 2

\* l.134: notification_count += 1
Increment(count) == count + 1

\* l.150: if notification_count >= max_notifications
MaxReached(count) == count >= max_notifications

\* l.131/148 -> l.133-145 or l.150-153: a sleep returns, the loop condition
\* is evaluated, and the task runs to its next await or to its end
LoopCheck(t) ==
    /\ tasks[t].pc \in {"settle", "sleeping"}
    /\ LET count == tasks[t].notification_count IN
       IF LoopCondition(count)
       THEN /\ tasks' = [tasks EXCEPT
                           ![t].pc = "alertSending",
                           ![t].notification_count = Increment(count),
                           ![t].log = Append(@, AlertMsg(Increment(count)))]
            /\ UNCHANGED notification_active
       ELSE IF MaxReached(count)
       THEN /\ tasks' = [tasks EXCEPT ![t].pc = "maxSending",
                                      ![t].log = Append(@, MaxReachedMsg)]
            /\ UNCHANGED notification_active
       ELSE /\ tasks' = [tasks EXCEPT ![t].pc = "done"]
            /\ notification_active' = FALSE
    /\ UNCHANGED <<stop_requested, pending, next_update_id, poller_pc,
                   poller_update, poll_result, handled, confirmed, arrived,
                   failures>>
    /\ UNCHANGED <<startup_vars, preview_vars>>

\* AlertSent with a send_notification that does not catch the TelegramError:
\* the exception ends the task
AlertSentUncaught(t) ==
    /\ tasks[t].pc = "alertSending"
    /\ \E ok \in BOOLEAN :
          /\ SendOutcome(ok)
          /\ tasks' = [tasks EXCEPT
                         ![t].pc = IF ok THEN "sleeping" ELSE "raised"]
    /\ UNCHANGED <<notification_active, stop_requested, pending,
                   next_update_id, poller_pc, poller_update, poll_result,
                   handled, confirmed, arrived>>
    /\ UNCHANGED <<startup_vars, preview_vars>>

\* l.145-148: send_notification(alert_text) returns, asyncio.sleep(interval)
\* begins
AlertSent(t) ==
    /\ tasks[t].pc = "alertSending"
    /\ \E ok \in BOOLEAN : SendOutcome(ok)
    /\ tasks' = [tasks EXCEPT ![t].pc = "sleeping"]
    /\ UNCHANGED <<notification_active, stop_requested, pending,
                   next_update_id, poller_pc, poller_update, poll_result,
                   handled, confirmed, arrived>>
    /\ UNCHANGED <<startup_vars, preview_vars>>

\* MaxNoticeSent with a send_notification that does not catch the
\* TelegramError: the exception ends the task before l.153
MaxNoticeSentUncaught(t) ==
    /\ tasks[t].pc = "maxSending"
    /\ \E ok \in BOOLEAN :
          /\ SendOutcome(ok)
          /\ tasks' = [tasks EXCEPT ![t].pc = IF ok THEN "done" ELSE "raised"]
          /\ notification_active' = IF ok THEN FALSE ELSE notification_active
    /\ UNCHANGED <<stop_requested, pending, next_update_id, poller_pc,
                   poller_update, poll_result, handled, confirmed, arrived>>
    /\ UNCHANGED <<startup_vars, preview_vars>>

\* l.151-154: the maximum-reached notice returns, notification_active = False
MaxNoticeSent(t) ==
    /\ tasks[t].pc = "maxSending"
    /\ \E ok \in BOOLEAN : SendOutcome(ok)
    /\ tasks' = [tasks EXCEPT ![t].pc = "done"]
    /\ notification_active' = FALSE
    /\ UNCHANGED <<stop_requested, pending, next_update_id, poller_pc,
                   poller_update, poll_result, handled, confirmed, arrived>>
    /\ UNCHANGED <<startup_vars, preview_vars>>

\* one step of task t, once the handler has created it
TaskStep(t) ==
    /\ t \in TaskIds
    /\ \/ StartLoop(t)
       \/ InitialSent(t)
       \/ LoopCheck(t)
       \/ AlertSent(t)
       \/ MaxNoticeSent(t)

----------------------------------------------------------------------------
(* The bot transport and the command poller: check_stop_command.           *)

\* a Telegram user sends the bot a message; the transport queues the update
Arrive(payloads) ==
    /\ arrived < MaxCommands
    /\ \E p \in payloads :
          pending' = Append(pending, Update(next_update_id, p))
    /\ next_update_id' = next_update_id + 1
    /\ arrived' = arrived + 1
    /\ handled' = Append(handled, 0)
    /\ confirmed' = Append(confirmed, 0)
    /\ UNCHANGED <<notification_active, stop_requested, tasks, poller_pc,
                   poller_update, poll_result, failures>>
    /\ UNCHANGED <<startup_vars, preview_vars>>

ArriveSample == Arrive(SamplePayloads)

ArriveAny == Arrive(AllPayloads)

\* l.212-213 -> l.159: asyncio.sleep(2) returns, get_updates(limit=10) is called
PollStart ==
    /\ phase = "monitoring"
    /\ poller_pc = "sleep"
    /\ poller_pc' = "fetch"
    /\ poll_result' = "none"
    /\ UNCHANGED <<notification_active, stop_requested, tasks, pending,
                   next_update_id, poller_update, handled, confirmed,
                   arrived, failures>>
    /\ UNCHANGED <<startup_vars, preview_vars>>

\* what get_updates(limit=...) with no offset returns: the oldest
\* unconfirmed updates, at most limit of them
Batch(limit) ==
    SubSeq(pending, 1, IF Len(pending) < limit THEN Len(pending) ELSE limit)

\* l.160-164: the first update of the batch that passes the if, 0 if none
FirstStop(batch) ==
    IF \E i \in 1..Len(batch) : IsStopCommand(batch[i])
    THEN CHOOSE i \in 1..Len(batch) :
            /\ IsStopCommand(batch[i])
            /\ \A j \in 1..(i - 1) : ~IsStopCommand(batch[j])
    ELSE 0

\* l.166-167: self.stop_requested = True; self.notification_active = False
SetStopFlags ==
    /\ stop_requested' = TRUE
    /\ notification_active' = FALSE

\* l.159-169 or l.178-180: get_updates returns or raises; the batch is
\* scanned; for the first /stop of the recipient the flags are set and the
\* confirmation send begins
FetchReturn ==
    /\ poller_pc = "fetch"
    /\ \/ /\ failures < MaxFailures
          /\ failures' = failures + 1
          /\ poller_pc' = "sleep"
          /\ poll_result' = "False"
          /\ UNCHANGED <<notification_active, stop_requested, tasks,
                         poller_update, handled>>
       \/ LET batch == Batch(get_updates_limit)
              i == FirstStop(batch)
          IN  IF i = 0
              THEN /\ poller_pc' = "sleep"
                   /\ poll_result' = "False"
                   /\ UNCHANGED <<notification_active, stop_requested,
                                  tasks, poller_update, handled, failures>>
              ELSE /\ SetStopFlags
                   /\ tasks' = [t \in TaskIds |->
                                  IF InProgress(t)
                                  THEN [tasks[t] EXCEPT !.cancelled = TRUE]
                                  ELSE tasks[t]]
                   /\ handled' = [handled EXCEPT ![batch[i].update_id] = @ + 1]
                   /\ poller_update' = batch[i].update_id
                   /\ poller_pc' = "confirm"
                   /\ UNCHANGED <<poll_result, failures>>
    /\ UNCHANGED <<pending, next_update_id, confirmed, arrived>>
    /\ UNCHANGED <<startup_vars, preview_vars>>

\* l.169-175 or l.178-180: the confirmation send returns and the
\* acknowledging get_updates(offset=update_id + 1) is called, or the send
\* raises and check_stop_command returns False
ConfirmReturn ==
    /\ poller_pc = "confirm"
    /\ \/ /\ confirmed' = [confirmed EXCEPT ![poller_update] = @ + 1]
          /\ poller_pc' = "ack"
          /\ UNCHANGED <<poller_update, poll_result, failures>>
       \/ /\ failures < MaxFailures
          /\ failures' = failures + 1
          /\ poller_pc' = "sleep"
          /\ poller_update' = 0
          /\ poll_result' = "False"
          /\ UNCHANGED confirmed
    /\ UNCHANGED <<notification_active, stop_requested, tasks, pending,
                   next_update_id, handled, arrived>>
    /\ UNCHANGED <<startup_vars, preview_vars>>

\* get_updates(offset=o): the transport forgets every update below o
Confirmed(o) == SelectSeq(pending, LAMBDA u : u.update_id >= o)

\* AckReturn without the except of l.178: the error leaves
\* check_stop_command and the loop of start_monitoring
AckReturnUncaught ==
    /\ poller_pc = "ack"
    /\ \/ /\ pending' = Confirmed(poller_update + 1)
          /\ poll_result' = "True"
          /\ poller_pc' = "sleep"
          /\ UNCHANGED failures
       \/ /\ failures < MaxFailures
          /\ failures' = failures + 1
          /\ poller_pc' = "raised"
          /\ UNCHANGED <<pending, poll_result>>
    /\ poller_update' = 0
    /\ UNCHANGED <<notification_active, stop_requested, tasks,
                   next_update_id, handled, confirmed, arrived>>
    /\ UNCHANGED <<startup_vars, preview_vars>>

\* l.175-177 or l.178-180: the acknowledging get_updates returns (return
\* True) or raises (return False)
AckReturn ==
    /\ poller_pc = "ack"
    /\ \/ /\ pending' = Confirmed(poller_update + 1)
          /\ poll_result' = "True"
          /\ UNCHANGED failures
       \/ /\ failures < MaxFailures
          /\ failures' = failures + 1
          /\ poll_result' = "False"
          /\ UNCHANGED pending
    /\ poller_pc' = "sleep"
    /\ poller_update' = 0
    /\ UNCHANGED <<notification_active, stop_requested, tasks,
                   next_update_id, handled, confirmed, arrived>>
    /\ UNCHANGED <<startup_vars, preview_vars>>

----------------------------------------------------------------------------
(* main(), the constructor, start_monitoring up to its loop, and           *)
(* stop_monitoring.                                                        *)

\* what the escalator, the poller and the bot transport own
monitor_vars ==
    <<notification_active, stop_requested, tasks, pending, next_update_id,
      poller_pc, poller_update, poll_result, handled, confirmed, arrived,
      failures>>

\* l.226 and l.22-41: monitor = PublicChannelMonitor(); an exception of the
\* constructor leaves main() and ends the process
Construct ==
    /\ phase = "init"
    /\ LET cfg == Loaded(env) IN
       IF IntRaises(cfg)
       THEN config_error' = IntError /\ phase' = "aborted"
       ELSE IF MissingVars(cfg) # <<>>
       THEN /\ config_error' = MissingError(MissingVars(cfg))
            /\ phase' = "aborted"
       ELSE config_error' = NoError /\ phase' = "constructed"
    /\ UNCHANGED <<env, client, setup_result, startup_sent, handlers>>
    /\ UNCHANGED <<monitor_vars, preview_vars>>

\* l.229, l.185 and l.63-77: start_monitoring calls setup_client, which
\* creates the client and awaits client.start
SetupStart ==
    /\ phase = "constructed"
    /\ client' = "created"
    /\ phase' = "setup"
    /\ UNCHANGED <<env, config_error, setup_result, startup_sent, handlers>>
    /\ UNCHANGED <<monitor_vars, preview_vars>>

\* SetupReturn without the return of l.189
SetupReturnContinues ==
    /\ phase = "setup"
    /\ \E r \in {"ok", "raised", "unauthorized"} :
          /\ setup_result' = r
          /\ client' = IF r = "raised" THEN client ELSE "connected"
    /\ phase' = "startup"
    /\ startup_sent' = TRUE
    /\ UNCHANGED <<env, config_error, handlers>>
    /\ UNCHANGED <<monitor_vars, preview_vars>>

\* l.77-87 and l.186-192: client.start returns or raises, the session is
\* authorized or not; on a failure start_monitoring returns, otherwise it
\* calls send_notification with the startup text
SetupReturn ==
    /\ phase = "setup"
    /\ \E r \in {"ok", "raised", "unauthorized"} :
          /\ setup_result' = r
          /\ client' = IF r = "raised" THEN client ELSE "connected"
          /\ IF r = "ok"
             THEN phase' = "startup" /\ startup_sent' = TRUE
             ELSE phase' = "returned" /\ UNCHANGED startup_sent
    /\ UNCHANGED <<env, config_error, handlers>>
    /\ UNCHANGED <<monitor_vars, preview_vars>>

\* l.192-211: the startup send returns (an error is logged), the handler is
\* registered and the poller loop is entered
StartupSent ==
    /\ phase = "startup"
    /\ \E ok \in BOOLEAN : SendOutcome(ok)
    /\ handlers' = handlers + 1
    /\ phase' = "monitoring"
    /\ UNCHANGED <<env, config_error, client, setup_result, startup_sent>>
    /\ UNCHANGED <<notification_active, stop_requested, tasks, pending,
                   next_update_id, poller_pc, poller_update, poll_result,
                   handled, confirmed, arrived>>
    /\ UNCHANGED preview_vars

\* l.230-232 and l.217-220: a KeyboardInterrupt leaves start_monitoring (the
\* poller is gone), main() calls stop_monitoring, which sets the flags and,
\* if there is a client, awaits client.disconnect
StopMonitoring ==
    /\ phase \in {"constructed", "setup", "startup", "monitoring"}
    /\ notification_active' = FALSE
    /\ stop_requested' = TRUE
    /\ poller_pc' = "interrupted"
    /\ phase' = IF client = "None" THEN "stopped" ELSE "disconnecting"
    /\ UNCHANGED <<env, config_error, client, setup_result, startup_sent,
                   handlers>>
    /\ UNCHANGED <<tasks, pending, next_update_id, poller_update,
                   poll_result, handled, confirmed, arrived, failures>>
    /\ UNCHANGED preview_vars

\* l.220 and l.239: client.disconnect returns, main() returns and
\* asyncio.run cancels the tasks that are left
DisconnectReturn ==
    /\ phase = "disconnecting"
    /\ client' = "disconnected"
    /\ phase' = "stopped"
    /\ tasks' = [t \in TaskIds |->
                   IF tasks[t].pc \in {"done", "ignored"}
                   THEN tasks[t]
                   ELSE [tasks[t] EXCEPT !.pc = "cancelled"]]
    /\ UNCHANGED <<env, config_error, setup_result, startup_sent, handlers>>
    /\ UNCHANGED <<notification_active, stop_requested, pending,
                   next_update_id, poller_pc, poller_update, poll_result,
                   handled, confirmed, arrived, failures>>
    /\ UNCHANGED preview_vars

----------------------------------------------------------------------------
(* The texts of one event.                                                 *)

\* l.113: message_preview is computed for initial_text
BuildInitial ==
    /\ preview_pc = "event"
    /\ message_preview' = MessagePreview(new_message)
    /\ preview_pc' = "initial"
    /\ UNCHANGED <<new_message, alert_preview>>
    /\ UNCHANGED <<monitor_vars, startup_vars>>

\* l.136-143: alert_text is built from message_preview
BuildAlert ==
    /\ preview_pc = "initial"
    /\ alert_preview' = AlertPreview(message_preview)
    /\ preview_pc' = "alert"
    /\ UNCHANGED <<new_message, message_preview>>
    /\ UNCHANGED <<monitor_vars, startup_vars>>

----------------------------------------------------------------------------
(* Specifications.                                                         *)

\* the whole monitor
Next ==
    \/ NewMessage
    \/ \E t \in TaskIds : StartLoop(t)
    \/ \E t \in TaskIds : InitialSent(t)
    \/ \E t \in TaskIds : LoopCheck(t)
    \/ \E t \in TaskIds : AlertSent(t)
    \/ \E t \in TaskIds : MaxNoticeSent(t)
    \/ ArriveSample
    \/ PollStart
    \/ FetchReturn
    \/ ConfirmReturn
    \/ AckReturn

Spec == Init /\ [][Next]_vars

\* updates that no get_updates call has confirmed: users wrote to the bot and
\* none of it was a /stop of the recipient
Backlog ==
    [i \in 1..get_updates_limit |->
        Update(i, Payload(TRUE, user_id, TRUE, <<"h", "i">>))]

\* a cycle in the asyncio.sleep(interval) that follows its first alert
SleepingTask ==
    [pc |-> "sleeping", notification_count |-> 1,
     log |-> <<InitialMsg, AlertMsg(1)>>, cancelled |-> FALSE]

\* the poller during one interval sleep of the escalator, with every kind of
\* update: no channel message arrives and no sleep of a cycle returns.  It
\* starts idle or with one cycle asleep, with no pending update or with the
\* backlog
InitPoller ==
    /\ tasks \in {<<>>, <<SleepingTask>>}
    /\ notification_active = (tasks # <<>>)
    /\ stop_requested = FALSE
    /\ pending \in {<<>>, Backlog}
    /\ next_update_id = Len(pending) + 1
    /\ poller_pc = "sleep"
    /\ poller_update = 0
    /\ poll_result = "none"
    /\ handled = [i \in 1..Len(pending) |-> 0]
    /\ confirmed = [i \in 1..Len(pending) |-> 0]
    /\ arrived = 0
    /\ failures = 0
    /\ Started
    /\ NoPreview

NextPoller ==
    \/ ArriveAny
    \/ PollStart
    \/ FetchReturn
    \/ ConfirmReturn
    \/ AckReturn

SpecPoller == InitPoller /\ [][NextPoller]_vars

\* the scheduler of the event loop runs every task that is ready, and every
\* send and sleep returns
FairSpec == Spec /\ \A t \in 1..MaxEvents : WF_vars(TaskStep(t))

\* the process from its start: every environment, nothing constructed yet
InitLifecycle ==
    /\ Idle
    /\ NoPreview
    /\ env \in Envs
    /\ phase = "init"
    /\ config_error = NoError
    /\ client = "None"
    /\ setup_result = "none"
    /\ startup_sent = FALSE
    /\ handlers = 0

\* the process from main() to its exit, the cycles up to their settle delay
\* (no asyncio.sleep of a cycle returns)
NextLifecycle ==
    \/ Construct
    \/ SetupStart
    \/ SetupReturn
    \/ StartupSent
    \/ StopMonitoring
    \/ DisconnectReturn
    \/ NewMessage
    \/ \E t \in TaskIds : StartLoop(t)
    \/ \E t \in TaskIds : InitialSent(t)
    \/ ArriveSample
    \/ PollStart
    \/ FetchReturn
    \/ ConfirmReturn
    \/ AckReturn

SpecLifecycle == InitLifecycle /\ [][NextLifecycle]_vars

\* start_notification_loop formats one event.message
InitPreview ==
    /\ Idle
    /\ Started
    /\ new_message \in Messages
    /\ message_preview = <<>>
    /\ alert_preview = <<>>
    /\ preview_pc = "event"

NextPreview == BuildInitial \/ BuildAlert

SpecPreview == InitPreview /\ [][NextPreview]_vars

\* a new channel message that arrives after a check_stop_command call acted
\* on a /stop and returned
LaterEvent ==
    /\ poller_pc = "sleep"
    /\ \E u \in 1..Len(handled) : handled[u] > 0
    /\ NewMessage

\* the monitor when the recipient sends /stop before any channel message
NextStale ==
    \/ LaterEvent
    \/ \E t \in TaskIds : StartLoop(t)
    \/ \E t \in TaskIds : InitialSent(t)
    \/ \E t \in TaskIds : LoopCheck(t)
    \/ \E t \in TaskIds : AlertSent(t)
    \/ \E t \in TaskIds : MaxNoticeSent(t)
    \/ ArriveSample
    \/ PollStart
    \/ FetchReturn
    \/ ConfirmReturn
    \/ AckReturn

SpecStale == Init /\ [][NextStale]_vars

----------------------------------------------------------------------------
(* Claims.                                                                 *)

\* tasks that passed the entry check of start_notification_loop
Cycles == {t \in TaskIds : tasks[t].pc \notin {"spawned", "ignored"}}

\* the alerts of a log
Alerts(log) == SelectSeq(log, LAMBDA m : m.kind = "alert")

\* C1: at most one escalation cycle is in progress at any time.
C1_AtMostOneCycle == Cardinality(Running) <= 1

\* C2: a cycle that was in progress when check_stop_command set
\* stop_requested leaves its loop at its next loop-condition check and
\* starts no further alert.
C2_StopEndsCycle ==
    [][\A t \in TaskIds :
          (/\ tasks[t].cancelled
           /\ tasks[t].pc \in {"settle", "sleeping"}
           /\ tasks'[t].pc # tasks[t].pc)
          => (/\ tasks'[t].pc \in {"done", "maxSending"}
              /\ Alerts(tasks'[t].log) = Alerts(tasks[t].log))]_vars

\* C4: the entry check of start_notification_loop, run for an event while
\* notification_active is false, starts exactly one cycle; run while it is
\* true it starts none, sends nothing and changes neither flag nor any
\* cycle's alert count.
C4_EventHandling ==
    [][\A t \in TaskIds :
          (tasks[t].pc = "spawned" /\ tasks'[t].pc # "spawned")
          => IF notification_active
             THEN /\ tasks'[t].pc = "ignored"
                  /\ Cycles' = Cycles
                  /\ \A o \in TaskIds :
                        /\ tasks'[o].log = tasks[o].log
                        /\ tasks'[o].notification_count
                             = tasks[o].notification_count
                  /\ UNCHANGED <<notification_active, stop_requested,
                                 confirmed>>
             ELSE /\ Cycles' = Cycles \cup {t}
                  /\ t \notin Cycles
                  /\ InProgress(t)'
                  /\ tasks'[t].log = <<InitialMsg>>]_vars

C4_Witness ==
    \E t, o \in TaskIds :
        /\ tasks[t].pc = "ignored"
        /\ tasks[o].pc = "initSending"

\* a log is the initial notification, then alerts 1..k, then possibly the
\* maximum-reached notice
LogShape(log) ==
    \/ log = <<>>
    \/ /\ log[1] = InitialMsg
       /\ \A i \in 2..Len(log) :
             \/ log[i] = AlertMsg(i - 1)
             \/ i = Len(log) /\ log[i] = MaxReachedMsg

\* C5: every cycle's messages are one initial notification followed by the
\* alerts 1, 2, ..., k with no gap or repeat, k at most max_notifications,
\* and k is the cycle's alert count.
C5_AlertNumbering ==
    \A t \in TaskIds :
        /\ LogShape(tasks[t].log)
        /\ Len(Alerts(tasks[t].log)) = tasks[t].notification_count
        /\ tasks[t].notification_count <= max_notifications
        /\ t \in Cycles => tasks[t].log # <<>>

C5_Witness ==
    \E t, o \in TaskIds :
        /\ t # o
        /\ InProgress(t) /\ InProgress(o)
        /\ tasks[t].notification_count = max_notifications
        /\ tasks[o].notification_count = 2

\* C6: every cycle that starts eventually executes its final
\* notification_active = False.
C6_CycleTerminates ==
    \A t \in 1..MaxEvents :
        (t \in TaskIds /\ InProgress(t))
            ~> (t \in TaskIds /\ tasks[t].pc = "done")

C6_Witness ==
    \E t \in TaskIds :
        /\ tasks[t].pc = "done"
        /\ tasks[t].notification_count > 0
        /\ tasks[t].notification_count < max_notifications


\* a /stop of the configured recipient, in any casing, with whitespace around
ValidStop(u) ==
    /\ u.has_message /\ u.has_text
    /\ u.from_id = user_id
    /\ u.text \in StopVariants

\* this step is the return of check_stop_command's fetch
FetchStep == poller_pc = "fetch" /\ poller_pc' # "fetch"

\* C3: a valid /stop pending at the transport is recognised by the next
\* poller iteration whose fetch returns, whatever is pending ahead of it.
C3_NextPollRecognises ==
    [][(/\ FetchStep
        /\ failures' = failures
        /\ \E i \in 1..Len(pending) : ValidStop(pending[i]))
       => (stop_requested' /\ poller_pc' = "confirm")]_vars

\* C7: a poller iteration whose batch holds no /stop of the recipient leaves
\* both flags unchanged and sends no confirmation; a batch that holds a
\* casing or whitespace variant of /stop from the recipient sets the flags.
C7_OnlyStopChangesFlags ==
    [][FetchStep =>
        LET batch == SubSeq(pending, 1,
                            IF Len(pending) < get_updates_limit
                            THEN Len(pending) ELSE get_updates_limit)
            stop == \E i \in 1..Len(batch) : ValidStop(batch[i])
        IN  /\ ~stop => /\ UNCHANGED <<stop_requested, notification_active,
                                      handled, confirmed>>
                        /\ poller_pc' = "sleep"
            /\ (stop /\ failures' = failures)
                  => /\ stop_requested' /\ ~notification_active'
                     /\ poller_pc' = "confirm"]_vars

\* check_stop_command returned False while a cycle was running and commands
\* that are no /stop of the recipient were pending, one of them nearly /stop
C7_Witness ==
    /\ poller_pc = "sleep" /\ poll_result = "False"
    /\ notification_active /\ ~stop_requested
    /\ failures = 0
    /\ \E i \in 1..Len(pending) :
          pending[i].text = <<"/", "s", "t", "o", "p", "p">>

\* no /stop of the recipient has arrived so far
NoStopArrived ==
    /\ \A i \in 1..Len(handled) : handled[i] = 0
    /\ \A i \in 1..Len(pending) : ~ValidStop(pending[i])

\* initial notification, alerts 1..max_notifications, maximum-reached notice
FullLog ==
    <<InitialMsg>> \o [i \in 1..max_notifications |-> AlertMsg(i)]
                   \o <<MaxReachedMsg>>

IsPrefix(s, r) == Len(s) <= Len(r) /\ s = SubSeq(r, 1, Len(s))

\* C8: with one new-message event and no stop command, the messages of the
\* cycle are the initial notification, the alerts 1..25 in order and one
\* maximum-reached notice; then notification_active is false and nothing
\* more is sent.
C8_ScenarioA ==
    (Len(tasks) = 1 /\ NoStopArrived)
    => /\ IsPrefix(tasks[1].log, FullLog)
       /\ tasks[1].pc # "ignored"
       /\ tasks[1].pc = "done"
            => (tasks[1].log = FullLog /\ ~notification_active)

C8_Witness ==
    /\ Len(tasks) = 1 /\ NoStopArrived
    /\ tasks[1].pc = "done"
    /\ Len(tasks[1].log) = max_notifications + 2

\* total of a sequence of numbers
RECURSIVE Sum(_)
Sum(s) == IF s = <<>> THEN 0 ELSE Head(s) + Sum(Tail(s))

\* C9: with one new-message event and one /stop of the recipient, handled
\* during the cycle after k alerts, k below max_notifications, no alert
\* follows the stop, and at the end the cycle has sent the initial
\* notification and its k alerts only, one confirmation was sent,
\* notification_active is false and stop_requested is true.
C9_ScenarioB ==
    [][(Len(tasks') = 1 /\ tasks'[1].cancelled)
       => /\ (Len(tasks) = 1 /\ tasks[1].cancelled)
                => Alerts(tasks'[1].log) = Alerts(tasks[1].log)
          /\ (/\ tasks'[1].pc = "done"
              /\ tasks'[1].notification_count < max_notifications
              /\ poller_pc' = "sleep"
              /\ \A i \in 1..Len(pending') : ~ValidStop(pending'[i])
              /\ Cardinality({i \in 1..Len(handled') : handled'[i] > 0}) = 1)
             => /\ tasks'[1].log
                     = <<InitialMsg>>
                         \o [i \in 1..tasks'[1].notification_count
                               |-> AlertMsg(i)]
                /\ Sum(confirmed') = 1
                /\ ~notification_active' /\ stop_requested']_vars

\* C10: a /stop the poller acted on is never delivered again: for each
\* update stop_requested is set at most once and at most one confirmation
\* is sent.
C10_StopHandledOnce ==
    \A id \in 1..Len(handled) : handled[id] <= 1 /\ confirmed[id] <= 1

\* C11: once stop_monitoring has run, notification_active and
\* stop_requested are both false, and a client that was created is
\* disconnected.
C11_ShutdownClearsFlags ==
    phase = "stopped"
    => /\ ~notification_active
       /\ ~stop_requested
       /\ client \in {"None", "disconnected"}

\* C12: when setup_client fails, start_monitoring returns: no handler is
\* registered, no notification is sent (the startup text included), the
\* poller runs no iteration, and no cycle starts or can start.
C12_SetupFailureStartsNothing ==
    setup_result \in {"raised", "unauthorized"}
    => /\ phase = "returned"
       /\ handlers = 0
       /\ ~startup_sent
       /\ failures = 0
       /\ poller_pc = "sleep" /\ poll_result = "none"
       /\ \A u \in 1..Len(confirmed) : confirmed[u] = 0
       /\ tasks = <<>>
       /\ ~notification_active /\ ~stop_requested
       /\ ~ENABLED NewMessage
       /\ ~ENABLED PollStart

\* setup failed on an unauthorized session and the recipient has since
\* written to the bot
C12_Witness ==
    /\ setup_result = "unauthorized"
    /\ phase = "returned"
    /\ pending # <<>>

\* a required setting is absent, empty or zero
Absent(e, n) ==
    \/ ~e[n].set
    \/ e[n].value = <<>>
    \/ n \in {"API_ID", "USER_ID"} /\ e[n].value = <<"0">>

\* C13: the constructor raises if and only if one of the six required
\* settings is absent, empty or zero; the error names exactly those
\* settings; and it is raised before a client exists or anything is sent.
C13_ConfigError ==
    phase # "init"
    => LET missing == {n \in Settings \ {"NOTIFICATION_INTERVAL"} :
                          Absent(env, n)}
           named == {config_error.names[i] :
                        i \in 1..Len(config_error.names)}
       IN  /\ config_error.raised <=> missing # {}
           /\ config_error.raised
                => /\ named = missing
                   /\ phase = "aborted"
                   /\ client = "None"
                   /\ ~startup_sent /\ failures = 0

\* the first n characters of a body
FirstChars(body, n) == [i \in 1..n |-> body[i]]

\* C14 as stated: for every message body, the preview of the initial
\* notification is the body when it has at most 150 characters and its
\* first 150 characters when it is longer; the preview of an alert is the
\* first 100 characters and an ellipsis when the body is longer than 100.
C14_PreviewOfEveryBody ==
    (preview_pc = "alert" /\ new_message.has_text)
    => LET body == new_message.text IN
       /\ Len(body) <= 150 => message_preview = body
       /\ Len(body) > 150 => message_preview = FirstChars(body, 150)
       /\ Len(body) > 100
            => alert_preview = FirstChars(body, 100) \o <<".", ".", ".">>

\* C14 amended: the same for every body that is not empty; for an empty
\* body, and for a message with no text, the preview of the initial
\* notification is "Media message".
C14_PreviewOfNonEmptyBody ==
    preview_pc = "alert"
    => LET body == new_message.text IN
       IF new_message.has_text /\ body # <<>>
       THEN /\ Len(body) <= 150 => message_preview = body
            /\ Len(body) > 150 => message_preview = FirstChars(body, 150)
            /\ Len(body) > 100
                 => alert_preview
                      = FirstChars(body, 100) \o <<".", ".", ".">>
       ELSE message_preview = MediaMessage

\* both texts were built for a body of more than 150 characters
C14_Witness ==
    /\ preview_pc = "alert"
    /\ new_message.has_text
    /\ Len(new_message.text) > 150
    /\ Len(message_preview) = 150
    /\ Len(alert_preview) = 103

\* task t leaves its while loop in this step
LeavesLoop(t) ==
    /\ tasks[t].pc \in {"settle", "sleeping"}
    /\ tasks'[t].pc \in {"done", "maxSending"}

\* C15: a cycle leaves its alerting loop only when stop_requested is true
\* or its alert count has reached max_notifications.
C15_LoopExitCause ==
    [][\A t \in TaskIds :
          LeavesLoop(t)
          => \/ stop_requested
             \/ tasks[t].notification_count >= max_notifications]_vars

\* the maximum-reached notices of a log
MaxNotices(log) == SelectSeq(log, LAMBDA m : m.kind = "max")

\* C16: a cycle sends at most one maximum-reached notice, and none when it
\* leaves its loop with stop_requested true, whenever the stop was handled.
C16_MaxNoticeOnlyOnCap ==
    [][\A t \in TaskIds :
          /\ Len(MaxNotices(tasks'[t].log)) <= 1
          /\ (LeavesLoop(t) /\ stop_requested)
               => MaxNotices(tasks'[t].log) = <<>>]_vars

\* where a task is after a send returned
AfterSend(pc) ==
    CASE pc = "initSending" -> "settle"
      [] pc = "alertSending" -> "sleeping"
      [] pc = "maxSending" -> "done"

\* C17: when a send of a cycle raises, the cycle goes on exactly as after a
\* send that returned: same next step, same alert count, nothing sent again,
\* notification_active = False after the maximum-reached notice; and no
\* notification appears twice in a cycle's log.
C17_SendFailureContinues ==
    [][\A t \in TaskIds :
          (/\ tasks[t].pc \in {"initSending", "alertSending", "maxSending"}
           /\ tasks'[t] # tasks[t]
           /\ failures' # failures)
          => /\ tasks'[t] = [tasks[t] EXCEPT !.pc = AfterSend(tasks[t].pc)]
             /\ LogShape(tasks'[t].log)
             /\ stop_requested' = stop_requested
             /\ notification_active'
                  = IF tasks[t].pc = "maxSending"
                    THEN FALSE ELSE notification_active]_vars

\* a cycle ran to its end with all its notifications although one send
\* raised (the poller never ran, so the error was a send of the cycle)
C17_Witness ==
    /\ Len(tasks) = 1
    /\ tasks[1].pc = "done"
    /\ tasks[1].log = FullLog
    /\ failures = 1
    /\ poller_pc = "sleep" /\ poll_result = "none"
    /\ ~notification_active

\* C20: whenever no cycle is in progress notification_active is false, and
\* a new-message event handled then starts a cycle.
C20_NeverStuckActive ==
    [][/\ Running' = {} => ~notification_active'
       /\ \A t \in TaskIds :
             (/\ Running = {}
              /\ tasks[t].pc = "spawned" /\ tasks'[t].pc # "spawned")
             => InProgress(t)']_vars

\* two cycles have ended, a /stop was handled and a transport call raised
C20_Witness ==
    /\ Len(tasks) = MaxEvents
    /\ \A t \in TaskIds : tasks[t].pc = "done"
    /\ \E u \in 1..Len(handled) : handled[u] > 0
    /\ failures > 0
    /\ ~notification_active

\* C18: an error raised by the fetch, by the confirmation send or by the
\* acknowledging call is swallowed: check_stop_command returns (False), the
\* poller loop is back at its sleep, from which the next iteration starts;
\* an error of the fetch changes neither flag.
C18_PollerSurvivesErrors ==
    [][(failures' # failures /\ poller_pc' # poller_pc)
       => /\ poller_pc \in {"fetch", "confirm", "ack"}
          /\ poll_result' = "False"
          /\ poller_pc' = "sleep" /\ phase' = "monitoring"
          /\ poller_pc = "fetch"
               => UNCHANGED <<stop_requested, notification_active>>]_vars

\* a poll iteration is under way after a transport error
C18_Witness ==
    /\ failures > 0
    /\ poller_pc = "fetch"

\* C19: a /stop that check_stop_command acted on before a new-message event
\* does not cancel the cycle this event starts: the cycle begins with
\* stop_requested false, and the only updates that set stop_requested
\* during it are updates not acted on before.
C19_StaleStopHarmless ==
    [][\A t \in TaskIds :
          /\ (tasks[t].pc = "spawned" /\ InProgress(t)') => ~stop_requested'
          /\ (~tasks[t].cancelled /\ tasks'[t].cancelled)
               => handled[poller_update'] = 0]_vars

====
